---------------------------- MODULE Spec2Model ----------------------------
(***************************************************************************)
(* Model of ukrainian_accentor_transformer.Accentor: the normalisation,    *)
(* segmentation and reassembly harness around the SentencePiece tokenizer  *)
(* and the CTranslate2 translator.                                         *)
(*                                                                         *)
(* A sentence is a sequence of characters (one-character strings), a token *)
(* is a sequence of characters, a tokenized sentence is a sequence of      *)
(* tokens.  The combining acute accent U+0301 is written "'".              *)
(***************************************************************************)
EXTENDS Naturals, Sequences, FiniteSets

VARIABLES
    pc,                   \* where the caller of the object is
    arg,                  \* __call__: the `sentence` argument, [type, val]
    sentences,            \* __call__: the local `sentences`
    clean_sentences,      \* _accent locals, in the order they are assigned
    tokenized_sentences,
    splitted_sentences,
    join_list,
    accented_tokens,
    join_sentences,
    ret,                  \* what __call__ returned, [type, val], or NoValue
    error,                \* the exception __call__ raised, or "none"
    stages,               \* the methods the current call has invoked, in order
    engine,               \* how translate_batch ended: none, returned, raised
    fn,                   \* the helper method last called directly
    fargs,                \* its arguments
    fres                  \* its result

vars == <<pc, arg, sentences, clean_sentences, tokenized_sentences,
          splitted_sentences, join_list, accented_tokens, join_sentences,
          ret, error, stages, engine, fn, fargs, fres>>

-----------------------------------------------------------------------------
(* Bounds of the model. *)

\* An input of __call__ holds at most MaxChars characters, counting one
\* more for each sentence of a list.
MaxChars == 5

\* The arguments of a directly called helper hold at most MaxTokens tokens,
\* counting one more for each inner list.
MaxTokens == 6

\* The counts given to _join_long sum to less than MaxCounts, counting one
\* more for each count.
MaxCounts == 5

-----------------------------------------------------------------------------
(* Characters and generic list helpers. *)

STRESS == "'"

Letters == {"a"}

Chars == {"a", " ", ",", ".", STRESS}

NoValue == [type |-> "NoValue", val |-> <<>>]

\* sum(xs, []): the concatenation of a list of lists.
RECURSIVE Concat(_)
Concat(xs) == IF xs = <<>> THEN <<>> ELSE Head(xs) \o Concat(Tail(xs))

RECURSIVE SumSeq(_)
SumSeq(xs) == IF xs = <<>> THEN 0 ELSE Head(xs) + SumSeq(Tail(xs))

Min(a, b) == IF a < b THEN a ELSE b

\* Python's xs[lo:hi] for 0 <= lo, 0 <= hi: indices clamped to the list.
Slice(xs, lo, hi) ==
    LET l == Min(lo, Len(xs))
        h == Min(hi, Len(xs))
    IN  IF l >= h THEN <<>> ELSE SubSeq(xs, l + 1, h)

\* Python's xs[lo:].
SliceFrom(xs, lo) == Slice(xs, lo, Len(xs))

\* The lists of sequences over A whose packed form (each inner sequence
\* followed by sep) holds at most n elements.
RECURSIVE Unpack(_, _, _)
Unpack(w, sep, cur) ==
    IF w = <<>> THEN <<>>
    ELSE IF Head(w) = sep THEN <<cur>> \o Unpack(Tail(w), sep, <<>>)
    ELSE Unpack(Tail(w), sep, Append(cur, Head(w)))

Packed(A, sep, n) ==
    {<<>>} \cup UNION {{Append(x, sep) : x \in [1..(k - 1) -> A \cup {sep}]} : k \in 1..n}

ListsOfSeqs(A, sep, n) == {Unpack(w, sep, <<>>) : w \in Packed(A, sep, n)}

SeqsUpTo(A, n) == UNION {[1..k -> A] : k \in 0..n}

-----------------------------------------------------------------------------
(* Accentor._clean_accents *)

\* str.replace("́", ""): every occurrence deleted, the rest kept.
RECURSIVE ReplaceStress(_)
ReplaceStress(sentence) ==
    IF sentence = <<>> THEN <<>>
    ELSE IF Head(sentence) = STRESS THEN ReplaceStress(Tail(sentence))
    ELSE <<Head(sentence)>> \o ReplaceStress(Tail(sentence))

\* Faulty variant: only the first stress mark of a sentence is removed
\* (replace with count 1).
RECURSIVE ReplaceFirstStress(_)
ReplaceFirstStress(sentence) ==
    IF sentence = <<>> THEN <<>>
    ELSE IF Head(sentence) = STRESS THEN Tail(sentence)
    ELSE <<Head(sentence)>> \o ReplaceFirstStress(Tail(sentence))

_clean_accents_first_only(ss) == [i \in 1..Len(ss) |-> ReplaceFirstStress(ss[i])]

_clean_accents(ss) == [i \in 1..Len(ss) |-> ReplaceStress(ss[i])]

-----------------------------------------------------------------------------
(* Accentor._split_sentence, _split_long, _join_long *)

split_tokens == {<<".">>, <<",">>, <<"!">>, <<"?">>}

\* The for loop of _split_sentence from position i (0-based) on, then its
\* else clause, which always runs as the loop holds no break.
RECURSIVE SplitLoop(_, _, _, _)
SplitLoop(tokenized, i, start_idx, splitted) ==
    IF i < Len(tokenized)
    THEN LET token == tokenized[i + 1]
             idx == i + 1
         IN  IF token \in split_tokens
             THEN SplitLoop(tokenized, i + 1, idx,
                            Append(splitted, Slice(tokenized, start_idx, idx)))
             ELSE SplitLoop(tokenized, i + 1, start_idx, splitted)
    ELSE Append(splitted, SliceFrom(tokenized, start_idx))

\* Faulty variant: the slice stops before the split token (tokenized[start_idx:i]).
_split_sentence_exclusive(tokenized) ==
    LET r == SplitLoop(tokenized, 0, 0, <<>>)
    IN  [j \in 1..Len(r) |-> IF j < Len(r) THEN SubSeq(r[j], 1, Len(r[j]) - 1) ELSE r[j]]

\* Faulty variant: the else clause is missing, the trailing tokens are never appended.
_split_sentence_no_else(tokenized) ==
    LET r == SplitLoop(tokenized, 0, 0, <<>>)
    IN  SubSeq(r, 1, Len(r) - 1)

\* Faulty variant: the trailing segment is appended only when it holds a token.
_split_sentence_skip_empty(tokenized) ==
    LET r == SplitLoop(tokenized, 0, 0, <<>>)
    IN  IF r[Len(r)] = <<>> THEN SubSeq(r, 1, Len(r) - 1) ELSE r

_split_sentence(tokenized) == SplitLoop(tokenized, 0, 0, <<>>)

\* The loop of _split_long over the sentences from k on; the result is the
\* pair <<splitted_sentences, join_list>>.
RECURSIVE SplitLongLoop(_, _, _, _)
SplitLongLoop(ts, k, splitted_acc, join_acc) ==
    IF k > Len(ts) THEN <<splitted_acc, join_acc>>
    ELSE LET splitted == _split_sentence(ts[k])
         IN  SplitLongLoop(ts, k + 1, splitted_acc \o splitted,
                           Append(join_acc, Len(splitted)))

\* Faulty variant: join_list.append(len(splitted_sentences)), the running total.
RECURSIVE SplitLongTotals(_, _, _, _)
SplitLongTotals(ts, k, splitted_acc, join_acc) ==
    IF k > Len(ts) THEN <<splitted_acc, join_acc>>
    ELSE LET splitted == _split_sentence(ts[k])
         IN  SplitLongTotals(ts, k + 1, splitted_acc \o splitted,
                             Append(join_acc, Len(splitted_acc \o splitted)))

_split_long_totals(ts) == SplitLongTotals(ts, 1, <<>>, <<>>)

_split_long(ts) == SplitLongLoop(ts, 1, <<>>, <<>>)

RECURSIVE JoinLoop(_, _, _, _, _)
JoinLoop(splitted, jl, k, sentence_idx, join_acc) ==
    IF k > Len(jl) THEN join_acc
    ELSE LET join_len == jl[k]
             sentence == Concat(Slice(splitted, sentence_idx, sentence_idx + join_len))
         IN  JoinLoop(splitted, jl, k + 1, sentence_idx + join_len,
                      Append(join_acc, sentence))

\* Faulty variant: sentence_idx is never advanced.
_join_long_no_advance(splitted, jl) ==
    [k \in 1..Len(jl) |-> Concat(Slice(splitted, 0, jl[k]))]

_join_long(splitted, jl) == JoinLoop(splitted, jl, 1, 0, <<>>)

-----------------------------------------------------------------------------
(* The SentencePiece tokenizer (self.sp), an external codec: a sentence is *)
(* given the dummy prefix "_", its spaces become "_", and it is cut into   *)
(* pieces, a punctuation mark being a piece of its own; decoding joins the *)
(* pieces, turns "_" back into a space and drops the prefix.               *)

Punctuation == {".", ",", "!", "?"}

RECURSIVE PieceLoop(_, _, _)
PieceLoop(chars, i, pieces) ==
    IF i > Len(chars) THEN pieces
    ELSE LET c == chars[i]
             n == Len(pieces)
             fresh == \/ n = 0
                      \/ c = "_"
                      \/ c \in Punctuation
                      \/ pieces[n][Len(pieces[n])] \in Punctuation
         IN  IF fresh
             THEN PieceLoop(chars, i + 1, Append(pieces, <<c>>))
             ELSE PieceLoop(chars, i + 1, [pieces EXCEPT ![n] = Append(@, c)])

EncodeSentence(s) ==
    IF s = <<>> THEN <<>>
    ELSE PieceLoop(<<"_">> \o [i \in 1..Len(s) |-> IF s[i] = " " THEN "_" ELSE s[i]],
                   1, <<>>)

DecodePieces(pieces) ==
    LET flat == Concat(pieces)
        text == [i \in 1..Len(flat) |-> IF flat[i] = "_" THEN " " ELSE flat[i]]
    IN  IF text # <<>> /\ text[1] = " " THEN Tail(text) ELSE text

sp_encode(ss) == [i \in 1..Len(ss) |-> EncodeSentence(ss[i])]

sp_decode(tss) == [i \in 1..Len(tss) |-> DecodePieces(tss[i])]

-----------------------------------------------------------------------------
(* The CTranslate2 translator (self.model), an external engine.  A call    *)
(* either raises or returns a list of results, each holding its ranked     *)
(* hypotheses.  The hypothesis of a segment is the segment with stress     *)
(* marks put after letters, in the tokens the policy selects; the engine   *)
(* may also return one result too few or one too many.                     *)

StressPolicies == {"none", "all", "odd"}

ResultCounts == {"exact", "short", "long"}

RECURSIVE AccentToken(_)
AccentToken(token) ==
    IF token = <<>> THEN <<>>
    ELSE IF Head(token) \in Letters
         THEN <<Head(token), STRESS>> \o AccentToken(Tail(token))
         ELSE <<Head(token)>> \o AccentToken(Tail(token))

Hypothesis(segment, policy) ==
    [j \in 1..Len(segment) |->
        IF policy = "all" \/ (policy = "odd" /\ j % 2 = 1)
        THEN AccentToken(segment[j]) ELSE segment[j]]

translate_batch(batch, policy, count) ==
    LET exact == [j \in 1..Len(batch) |->
                    [hypotheses |-> <<Hypothesis(batch[j], policy)>>]]
    IN  CASE count = "exact" -> exact
          [] count = "short" -> SubSeq(exact, 1, Len(exact) - 1)
          [] count = "long"  -> Append(exact, [hypotheses |-> <<<<<<"a", STRESS>>>>>>])

-----------------------------------------------------------------------------
(* Inputs. *)

Batches == ListsOfSeqs(Chars, "|", MaxChars)

Strings == SeqsUpTo(Chars, MaxChars - 1)

Args ==
    {[type |-> "list", val |-> b] : b \in Batches}
    \cup {[type |-> "str", val |-> s] : s \in Strings}
    \cup {[type |-> "tuple", val |-> b] : b \in Batches}
    \cup {[type |-> "NoneType", val |-> <<>>]}

UnitTokens == {<<"_", "a">>, <<",">>}

TokenLists == SeqsUpTo(UnitTokens, MaxTokens)

TokenBatches == ListsOfSeqs(UnitTokens, <<"|">>, MaxTokens)

CountLists ==
    {[i \in 1..Len(b) |-> Len(b[i])] : b \in ListsOfSeqs({"u"}, "|", MaxCounts)}

-----------------------------------------------------------------------------
(* Accentor.__call__ and Accentor._accent *)

\* Faulty variant: `else` in place of `elif (type(sentence) is list)`.
SentencesCoerced(a) ==
    IF a.type = "str" THEN [bound |-> TRUE, val |-> <<a.val>>]
    ELSE [bound |-> TRUE, val |-> a.val]

\* Lines 73-76: `sentences` is bound for a str and for a list only.
Sentences(a) ==
    IF a.type = "str" THEN [bound |-> TRUE, val |-> <<a.val>>]
    ELSE IF a.type = "list" THEN [bound |-> TRUE, val |-> a.val]
    ELSE [bound |-> FALSE, val |-> <<>>]

\* Faulty variant: the batch-of-one result is returned as it is.
ReturnValueNoUnwrap(a, accented_sentences) ==
    [type |-> "list", val |-> accented_sentences]

\* Lines 80-85.
ReturnValue(a, accented_sentences) ==
    IF a.type = "str" THEN [type |-> "str", val |-> accented_sentences[1]]
    ELSE [type |-> "list", val |-> accented_sentences]

\* The object keeps no state from one call to the next (its handles are
\* read-only), so one call on the constructed object is followed.
Ready == pc = "idle"

NoHelper == fn' = "none" /\ fargs' = <<>> /\ fres' = <<>>

NoLocals ==
    /\ sentences' = <<>>
    /\ clean_sentences' = <<>>
    /\ tokenized_sentences' = <<>>
    /\ splitted_sentences' = <<>>
    /\ join_list' = <<>>
    /\ accented_tokens' = <<>>
    /\ join_sentences' = <<>>

\* __call__ on an argument no branch of lines 73-76 takes: line 78 reads the
\* unbound local `sentences` and raises before _accent is entered.
CallUnbound ==
    /\ Ready
    /\ \E a \in Args :
        /\ ~Sentences(a).bound
        /\ arg' = a
        /\ NoLocals
        /\ ret' = NoValue
        /\ error' = "UnboundLocalError"
        /\ stages' = <<>>
        /\ engine' = "none"
        /\ pc' = "raised"
        /\ NoHelper

\* __call__ up to the invocation of translate_batch (lines 73-78, 97-102).
Call ==
    /\ Ready
    /\ \E a \in Args :
        /\ Sentences(a).bound
        /\ LET ss == Sentences(a).val
               clean == _clean_accents(ss)
               tokenized == sp_encode(clean)
               split == _split_long(tokenized)
           IN  /\ arg' = a
               /\ sentences' = ss
               /\ clean_sentences' = clean
               /\ tokenized_sentences' = tokenized
               /\ splitted_sentences' = split[1]
               /\ join_list' = split[2]
        /\ accented_tokens' = <<>>
        /\ join_sentences' = <<>>
        /\ ret' = NoValue
        /\ error' = "none"
        /\ stages' = <<"_clean_accents", "sp.encode", "_split_long", "translate_batch">>
        /\ engine' = "none"
        /\ pc' = "translate_batch"
        /\ NoHelper

\* translate_batch returns: the rest of _accent and of __call__
\* (lines 102-108, 80-85).
TranslateReturns ==
    /\ pc = "translate_batch"
    /\ \E policy \in StressPolicies, count \in ResultCounts :
        /\ count = "short" => splitted_sentences # <<>>
        /\ LET results == translate_batch(splitted_sentences, policy, count)
               accented == [j \in 1..Len(results) |-> results[j].hypotheses[1]]
               joined == _join_long(accented, join_list)
               accented_sentences == sp_decode(joined)
           IN  /\ accented_tokens' = accented
               /\ join_sentences' = joined
               /\ ret' = ReturnValue(arg, accented_sentences)
        /\ stages' = stages \o <<"_join_long", "sp.decode">>
        /\ engine' = "returned"
        /\ pc' = "returned"
        /\ UNCHANGED <<arg, sentences, clean_sentences, tokenized_sentences,
                       splitted_sentences, join_list, error, fn, fargs, fres>>

\* Faulty variant: the failure is caught and the unaccented sentences are returned.
TranslateRaisesSwallowed ==
    /\ pc = "translate_batch"
    /\ pc' = "returned"
    /\ ret' = ReturnValue(arg, clean_sentences)
    /\ engine' = "raised"
    /\ UNCHANGED <<arg, sentences, clean_sentences, tokenized_sentences,
                   splitted_sentences, join_list, accented_tokens,
                   join_sentences, error, stages, fn, fargs, fres>>

\* translate_batch raises: nothing in _accent or __call__ catches it.
TranslateRaises ==
    /\ pc = "translate_batch"
    /\ pc' = "raised"
    /\ error' = "InferenceError"
    /\ engine' = "raised"
    /\ UNCHANGED <<arg, sentences, clean_sentences, tokenized_sentences,
                   splitted_sentences, join_list, accented_tokens,
                   join_sentences, ret, stages, fn, fargs, fres>>

-----------------------------------------------------------------------------
(* The helper methods called directly, outside a call of the object. *)

HelperDone ==
    /\ pc' = "helper"
    /\ NoLocals
    /\ UNCHANGED <<arg, ret, error, stages, engine>>

CleanAccents ==
    /\ Ready
    /\ \E ss \in Batches :
        /\ HelperDone
        /\ fn' = "_clean_accents"
        /\ fargs' = <<ss>>
        /\ fres' = _clean_accents(ss)

SplitSentence ==
    /\ Ready
    /\ \E t \in TokenLists :
        /\ HelperDone
        /\ fn' = "_split_sentence"
        /\ fargs' = <<t>>
        /\ fres' = _split_sentence(t)

SplitLong ==
    /\ Ready
    /\ \E ts \in TokenBatches :
        /\ HelperDone
        /\ fn' = "_split_long"
        /\ fargs' = <<ts>>
        /\ fres' = _split_long(ts)

JoinLong ==
    /\ Ready
    /\ \E hs \in TokenBatches, jl \in CountLists :
        /\ HelperDone
        /\ fn' = "_join_long"
        /\ fargs' = <<hs, jl>>
        /\ fres' = _join_long(hs, jl)

-----------------------------------------------------------------------------

Init ==
    /\ pc = "idle"
    /\ arg = NoValue
    /\ sentences = <<>>
    /\ clean_sentences = <<>>
    /\ tokenized_sentences = <<>>
    /\ splitted_sentences = <<>>
    /\ join_list = <<>>
    /\ accented_tokens = <<>>
    /\ join_sentences = <<>>
    /\ ret = NoValue
    /\ error = "none"
    /\ stages = <<>>
    /\ engine = "none"
    /\ fn = "none"
    /\ fargs = <<>>
    /\ fres = <<>>

Next ==
    \/ CallUnbound
    \/ Call
    \/ TranslateReturns
    \/ TranslateRaises
    \/ CleanAccents
    \/ SplitSentence
    \/ SplitLong
    \/ JoinLong

Spec == Init /\ [][Next]_vars

-----------------------------------------------------------------------------
(* What the claims are stated with. *)

Strip(sentence) == SelectSeq(sentence, LAMBDA c : c # STRESS)

HasStress(sentence) == \E i \in 1..Len(sentence) : sentence[i] = STRESS

IsSplit(token) == token \in split_tokens

SplitCount(tokenized) == Cardinality({i \in 1..Len(tokenized) : IsSplit(tokenized[i])})

\* The number of elements the counts before the i-th take.
Offset(counts, i) == SumSeq(SubSeq(counts, 1, i - 1))

\* The elements of the flat list that belong to the i-th count.
Group(flat, counts, i) ==
    SubSeq(flat, Offset(counts, i) + 1, Offset(counts, i) + counts[i])

TranslateCalls == Len(SelectSeq(stages, LAMBDA m : m = "translate_batch"))

\* The engine returned one result for each segment submitted.
OnePerSegment == Len(accented_tokens) = Len(splitted_sentences)

\* The engine returned, for each segment, its tokens with only stress marks
\* inserted.
OnlyStressInserted ==
    /\ OnePerSegment
    /\ \A j \in 1..Len(splitted_sentences) :
        /\ Len(accented_tokens[j]) = Len(splitted_sentences[j])
        /\ \A k \in 1..Len(splitted_sentences[j]) :
            Strip(accented_tokens[j][k]) = splitted_sentences[j][k]

TokenizerRoundTrips == sp_decode(sp_encode(clean_sentences)) = clean_sentences

-----------------------------------------------------------------------------
\* C1: __call__ keeps the shape of its input when the engine returns one
\* result for each segment: a list of n sentences gives a list of n
\* sentences, output i being input i with stress marks, and a string gives
\* a string, the first element of the batch-of-one result.
C1_ShapePreserved ==
    (pc = "returned" /\ OnePerSegment) =>
        /\ arg.type = "list" =>
            /\ ret.type = "list"
            /\ Len(ret.val) = Len(arg.val)
            /\ \A i \in 1..Len(arg.val) : Strip(ret.val[i]) = Strip(arg.val[i])
        /\ arg.type = "str" =>
            /\ ret.type = "str"
            /\ Len(join_sentences) = 1
            /\ ret.val = sp_decode(join_sentences)[1]
            /\ Strip(ret.val) = Strip(arg.val)

C1_Witness ==
    /\ pc = "returned"
    /\ OnePerSegment
    /\ arg.type = "list"
    /\ Len(arg.val) = 2
    /\ Strip(arg.val[1]) # Strip(arg.val[2])
    /\ ~HasStress(arg.val[1])
    /\ HasStress(ret.val[1])
    /\ ret.val[1] # ret.val[2]

\* C2: for an input sentence without stress marks, removing the stress
\* marks from the output gives the input back, for a single string and for
\* each element of a list, when the tokenizer round-trips and the engine
\* returns each segment's tokens with only stress marks inserted.
C2_StripGivesInput ==
    (pc = "returned" /\ OnlyStressInserted /\ TokenizerRoundTrips) =>
        /\ (arg.type = "str" /\ ~HasStress(arg.val)) => Strip(ret.val) = arg.val
        /\ arg.type = "list" =>
            /\ Len(ret.val) = Len(arg.val)
            /\ \A i \in 1..Len(arg.val) :
                ~HasStress(arg.val[i]) => Strip(ret.val[i]) = arg.val[i]

C2_Witness ==
    /\ pc = "returned"
    /\ OnlyStressInserted
    /\ arg.type = "str"
    /\ ~HasStress(arg.val)
    /\ SplitCount(tokenized_sentences[1]) >= 2
    /\ HasStress(ret.val)

\* C3: _clean_accents is idempotent, its result holds no stress mark, has
\* the length and order of its argument, and each sentence of it is the
\* argument's sentence with the stress marks deleted and the rest in place.
C3_CleanAccents ==
    fn = "_clean_accents" =>
        LET S == fargs[1]
        IN  /\ _clean_accents(fres) = fres
            /\ Len(fres) = Len(S)
            /\ \A i \in 1..Len(S) :
                /\ ~HasStress(fres[i])
                /\ fres[i] = Strip(S[i])

C3_Witness ==
    /\ fn = "_clean_accents"
    /\ Len(fargs[1]) = 2
    /\ \E i, j \in 1..Len(fargs[1][1]) :
        i < j /\ fargs[1][1][i] = STRESS /\ fargs[1][1][j] = STRESS
    /\ fres[1] # <<>>

\* C4: when translate_batch fails the call fails with that error, returns
\* nothing and does not call translate_batch again; a call invokes
\* translate_batch at most once.
C4_InferenceErrorPropagates ==
    /\ TranslateCalls <= 1
    /\ engine = "raised" =>
        /\ pc = "raised"
        /\ error = "InferenceError"
        /\ ret = NoValue
        /\ TranslateCalls = 1

C4_Witness ==
    /\ engine = "raised"
    /\ arg.type = "list"
    /\ Len(arg.val) = 2

\* C5: an argument that is neither a str nor a list ends the call in an
\* error: nothing is returned and neither _clean_accents, the tokenizer nor
\* translate_batch is reached.
C5_InputShapeError ==
    arg.type \in {"tuple", "NoneType"} =>
        /\ pc = "raised"
        /\ error # "none"
        /\ ret = NoValue
        /\ stages = <<>>
        /\ engine = "none"

C5_Witness ==
    /\ arg.type = "tuple"
    /\ Len(arg.val) = 2
    /\ pc = "raised"

\* C6: the segments of _split_sentence(t), concatenated in order, are t, and
\* there is at least one; in _split_long the counts sum to the length of
\* the flat batch.
C6_SegmentCoverage ==
    /\ fn = "_split_sentence" =>
        /\ Concat(fres) = fargs[1]
        /\ Len(fres) >= 1
    /\ fn = "_split_long" =>
        /\ SumSeq(fres[2]) = Len(fres[1])
        /\ Len(fres[2]) = Len(fargs[1])
    /\ pc \in {"translate_batch", "returned"} =>
        SumSeq(join_list) = Len(splitted_sentences)

C6_Witness ==
    /\ fn = "_split_sentence"
    /\ Len(fres) = 3
    /\ fres[3] # <<>>
    /\ fres[1] # fres[2]

\* C7: for counts that sum to the number of hypotheses, _join_long returns
\* one sequence for each count, the i-th being the concatenation of the
\* hypotheses of the i-th count, so every hypothesis is used once, in
\* order, and a sentence of a batch holds only its own hypotheses.
C7_JoinKeepsSentencesApart ==
    /\ (fn = "_join_long" /\ SumSeq(fargs[2]) = Len(fargs[1])) =>
        /\ Len(fres) = Len(fargs[2])
        /\ \A i \in 1..Len(fargs[2]) : fres[i] = Concat(Group(fargs[1], fargs[2], i))
        /\ Concat(fres) = Concat(fargs[1])
    /\ (pc = "returned" /\ OnePerSegment) =>
        /\ Len(join_sentences) = Len(join_list)
        /\ \A i \in 1..Len(join_list) :
            join_sentences[i] = Concat(Group(accented_tokens, join_list, i))

C7_Witness ==
    /\ fn = "_join_long"
    /\ fargs[2] = <<2, 1>>
    /\ Len(fargs[1]) = 3
    /\ \A j \in 1..3 : fargs[1][j] # <<>>
    /\ fargs[1][1] # fargs[1][3]

\* C8: _join_long undoes _split_sentence and _split_long.
C8_JoinMirrorsSplit ==
    /\ fn = "_split_sentence" => _join_long(fres, <<Len(fres)>>) = <<fargs[1]>>
    /\ fn = "_split_long" => _join_long(fres[1], fres[2]) = fargs[1]

C8_Witness ==
    /\ fn = "_split_long"
    /\ Len(fargs[1]) = 2
    /\ fres[2] = <<2, 1>>
    /\ fargs[1][2] # <<>>

\* C9: a call in which the engine returns a number of hypotheses other than
\* the sum of the segment counts ends in an error and returns no sentences.
C9_MismatchIsFatal ==
    (engine = "returned" /\ SumSeq(join_list) # Len(accented_tokens)) =>
        /\ pc = "raised"
        /\ ret = NoValue

\* C10: a tokenized sentence with k split tokens gives k + 1 segments; each
\* of the first k ends with a split token and holds no other, the last
\* holds none.  So an empty sentence gives one empty segment, and a
\* sentence ending with a split token gives an empty last segment, which is
\* in the batch given to translate_batch.
C10_BoundaryRule ==
    /\ fn = "_split_sentence" =>
        LET t == fargs[1]
            k == SplitCount(t)
        IN  /\ Len(fres) = k + 1
            /\ \A j \in 1..k :
                /\ fres[j] # <<>>
                /\ \A m \in 1..Len(fres[j]) : IsSplit(fres[j][m]) <=> m = Len(fres[j])
            /\ \A m \in 1..Len(fres[k + 1]) : ~IsSplit(fres[k + 1][m])
            /\ t = <<>> => fres = <<<<>>>>
            /\ k = 0 => fres = <<t>>
            /\ (t # <<>> /\ IsSplit(t[Len(t)])) => fres[k + 1] = <<>>
    /\ pc = "translate_batch" =>
        \A i \in 1..Len(tokenized_sentences) :
            LET t == tokenized_sentences[i]
                last == Offset(join_list, i) + join_list[i]
            IN  /\ join_list[i] = SplitCount(t) + 1
                /\ (t = <<>> \/ IsSplit(t[Len(t)])) => splitted_sentences[last] = <<>>

C10_Witness ==
    /\ pc = "translate_batch"
    /\ Len(tokenized_sentences) = 2
    /\ tokenized_sentences[1] # <<>>
    /\ IsSplit(tokenized_sentences[1][Len(tokenized_sentences[1])])
    /\ join_list[1] = 3
    /\ splitted_sentences[3] = <<>>

=============================================================================
